---- MODULE Spec2Model ----
(***************************************************************************)
(* A model of CharaDevice (python/serial_interface.py): a serial session   *)
(* with a programmable keyboard.  Text is a sequence of one-character      *)
(* strings, so that framing, tokenising and number parsing are computed    *)
(* as the Python code computes them.  The serial port (pyserial) and the   *)
(* device behind it are the environment.                                   *)
(***************************************************************************)
EXTENDS Integers, Sequences, FiniteSets, TLC

\* ------------------------------------------------------------------ bounds

\* The device answers a request while at most this many bytes of its earlier
\* output are still unread.
MaxStale == 1

\* The most calls of close() and __exit__ on one session.
MaxCloses == 2

\* Every action list up to this length over ActionVals is encoded and decoded.
MaxListLen == 4

\* --------------------------------------------------------- Python values

\* Optional values: Python's None, and a present value.
None == <<>>
Some(x) == <<x>>

CR == "\r"
LF == "\n"
SP == " "
CRLF == <<CR, LF>>

Digits == <<"0", "1", "2", "3", "4", "5", "6", "7", "8", "9">>
HexUpper == <<"A", "B", "C", "D", "E", "F">>
HexLower == <<"a", "b", "c", "d", "e", "f">>

\* The index of character c in sequence s, or 0.
IndexOf(c, s) ==
  IF \E i \in 1..Len(s) : s[i] = c
    THEN CHOOSE i \in 1..Len(s) : s[i] = c
    ELSE 0

IsDigit(c) == IndexOf(c, Digits) > 0
DigitVal(c) == IndexOf(c, Digits) - 1

IsHexDigit(c) == IsDigit(c) \/ IndexOf(c, HexUpper) > 0 \/ IndexOf(c, HexLower) > 0
HexDigitVal(c) ==
  IF IsDigit(c) THEN DigitVal(c)
  ELSE IF IndexOf(c, HexUpper) > 0 THEN 9 + IndexOf(c, HexUpper)
  ELSE 9 + IndexOf(c, HexLower)

\* A byte above 0x7F, and bytes.decode('ascii', errors='ignore'), which
\* leaves such bytes out.
HIGH == "0x80"

DecodeAscii(b) == SelectSeq(b, LAMBDA c : c # HIGH)

\* str.strip(): whitespace removed at both ends.
IsSpace(c) == c \in {SP, "\t", CR, LF}

RECURSIVE LStrip(_)
LStrip(s) ==
  IF s # <<>> /\ IsSpace(Head(s)) THEN LStrip(Tail(s)) ELSE s

RECURSIVE RStrip(_)
RStrip(s) ==
  IF s # <<>> /\ IsSpace(s[Len(s)]) THEN RStrip(SubSeq(s, 1, Len(s) - 1)) ELSE s

Strip(s) == RStrip(LStrip(s))

\* str.split(sep) for a one-character separator: every separator cuts, so
\* two separators in a row give an empty part, and "" gives [""].
RECURSIVE SplitFrom(_, _, _)
SplitFrom(s, sep, cur) ==
  IF s = <<>> THEN <<cur>>
  ELSE IF Head(s) = sep THEN <<cur>> \o SplitFrom(Tail(s), sep, <<>>)
  ELSE SplitFrom(Tail(s), sep, Append(cur, Head(s)))

Split(s, sep) == SplitFrom(s, sep, <<>>)

\* sep.join(parts)
RECURSIVE Join(_, _)
Join(parts, sep) ==
  IF parts = <<>> THEN <<>>
  ELSE IF Len(parts) = 1 THEN parts[1]
  ELSE parts[1] \o <<sep>> \o Join(Tail(parts), sep)

\* sum of strings: phrase_hex += part
RECURSIVE Concat(_)
Concat(parts) ==
  IF parts = <<>> THEN <<>> ELSE Head(parts) \o Concat(Tail(parts))

StartsWith(s, prefix) ==
  Len(s) >= Len(prefix) /\ SubSeq(s, 1, Len(prefix)) = prefix

\* int(s): surrounding whitespace is dropped, an optional sign, then one or
\* more decimal digits, which single underscores may separate.  Anything
\* else raises ValueError.
Unsigned(s) == IF s # <<>> /\ Head(s) \in {"-", "+"} THEN Tail(s) ELSE s

\* Digits (the characters of `digits`) with single underscores between them.
Grouped(u, digits) ==
  /\ u # <<>>
  /\ IndexOf(u[1], digits) > 0
  /\ IndexOf(u[Len(u)], digits) > 0
  /\ \A i \in 1..Len(u) : IndexOf(u[i], digits) > 0 \/ u[i] = "_"
  /\ \A i \in 1..(Len(u) - 1) : ~(u[i] = "_" /\ u[i + 1] = "_")

NoUnderscores(u) == SelectSeq(u, LAMBDA c : c # "_")

IsInt(s) == Grouped(Unsigned(Strip(s)), Digits)

RECURSIVE DecVal(_)
DecVal(u) ==
  IF u = <<>> THEN 0 ELSE 10 * DecVal(SubSeq(u, 1, Len(u) - 1)) + DigitVal(u[Len(u)])

IntVal(s) ==
  LET t == Strip(s)
      u == NoUnderscores(Unsigned(t))
  IN  IF t # <<>> /\ Head(t) = "-" THEN 0 - DecVal(u) ELSE DecVal(u)

\* str(n) and f"{n:X}" for n >= 0.
RECURSIVE ToDec(_)
ToDec(n) ==
  IF n < 10 THEN <<Digits[n + 1]>> ELSE Append(ToDec(n \div 10), Digits[(n % 10) + 1])

HexChars == Digits \o HexUpper

RECURSIVE ToHexUpper(_)
ToHexUpper(n) ==
  IF n < 16 THEN <<HexChars[n + 1]>>
  ELSE Append(ToHexUpper(n \div 16), HexChars[(n % 16) + 1])

\* ----------------------------------------------------------- the protocol

W_VERSION == <<"V", "E", "R", "S", "I", "O", "N">>
W_ID == <<"I", "D">>
W_CML == <<"C", "M", "L">>
W_C0 == <<"C", "0">>
W_C1 == <<"C", "1">>
W_RAM == <<"R", "A", "M">>
W_VAR == <<"V", "A", "R">>
W_B1 == <<"B", "1">>
W_QRY == <<"Q", "R", "Y">>
W_KEY == <<"K", "E", "Y">>
W_UKN == <<"U", "K", "N">>
W_M0 == <<"M", "0">>

\* send_command's reading of the reply line (lines 66-79): the tokens after
\* the echoed prefix, or [] on any mismatch.
M_ParseResponse(command_parts, response) ==
  LET parts == Split(response, SP)
  IN  IF Len(parts) >= 1 /\ parts[1] = command_parts[1]
        THEN IF Len(command_parts) > 1 /\ Len(parts) > 1
               THEN IF Len(parts) > 2 THEN SubSeq(parts, 3, Len(parts)) ELSE <<>>
               ELSE IF Len(parts) > 1 THEN Tail(parts) ELSE <<>>
        ELSE <<>>

ParseResponse(command_parts, response) ==
  LET parts == Split(response, SP)
  IN  IF Len(parts) >= 1 /\ parts[1] = command_parts[1]
        THEN IF Len(command_parts) > 1 /\ Len(parts) > 1
               THEN IF parts[2] = command_parts[2]
                      THEN IF Len(parts) > 2 THEN SubSeq(parts, 3, Len(parts)) ELSE <<>>
                      ELSE <<>>
               ELSE IF Len(parts) > 1 THEN Tail(parts) ELSE <<>>
        ELSE <<>>

\* What send_command returns for what _read_line returned.
SendCommandResult(command_parts, line) ==
  IF line = None THEN <<>> ELSE ParseResponse(command_parts, line[1])

M_KeyCountOf(dev) == 90

\* key_counts.get(device, 90)
KeyCountOf(dev) ==
  CASE dev = <<"O", "N", "E">> -> 90
    [] dev = <<"T", "W", "O">> -> 90
    [] dev = <<"L", "I", "T", "E">> -> 67
    [] dev = <<"X">> -> 256
    [] dev = <<"E", "N", "G", "I", "N", "E">> -> 256
    [] dev = <<"M", "4", "G">> -> 90
    [] dev = <<"M", "4", "G", "R">> -> 90
    [] dev = <<"T", "4", "G">> -> 7
    [] dev = <<"Z", "E", "R", "O">> -> 256
    [] OTHER -> 90

M_T_BETA20 == <<"2", ".", "2", ".", "1">>

T_BETA4 == <<"2", ".", "2", ".", "0", "-", "b", "e", "t", "a", ".", "4">>
T_BETA20 == <<"2", ".", "2", ".", "0", "-", "b", "e", "t", "a", ".", "2", "0">>

RECURSIVE M_VersionCmp(_, _, _)
M_VersionCmp(current, target, i) ==
  IF i > 3 THEN TRUE
  ELSE IF i <= Len(current) /\ ~IsInt(current[i]) THEN FALSE
  ELSE IF i <= Len(target) /\ ~IsInt(target[i]) THEN FALSE
  ELSE LET c == IF i <= Len(current) THEN IntVal(current[i]) ELSE 0
           t == IF i <= Len(target) THEN IntVal(target[i]) ELSE 0
       IN  IF c >= t THEN TRUE ELSE FALSE

\* _version_gte: the first three dot-separated components before the first
\* "-", compared left to right; a component is parsed only when the loop
\* reaches it, and any exception gives False.
RECURSIVE VersionCmp(_, _, _)
VersionCmp(current, target, i) ==
  IF i > 3 THEN TRUE
  ELSE IF i <= Len(current) /\ ~IsInt(current[i]) THEN FALSE
  ELSE IF i <= Len(target) /\ ~IsInt(target[i]) THEN FALSE
  ELSE LET c == IF i <= Len(current) THEN IntVal(current[i]) ELSE 0
           t == IF i <= Len(target) THEN IntVal(target[i]) ELSE 0
       IN  IF c > t THEN TRUE
           ELSE IF c < t THEN FALSE
           ELSE VersionCmp(current, target, i + 1)

VersionGte(ver, target_version) ==
  IF ver = None THEN FALSE
  ELSE VersionCmp(Split(Split(ver[1], "-")[1], "."),
                  Split(Split(target_version, "-")[1], "."), 1)

\* Python truth of an optional string: None and "" are false.
Truthy(opt) == opt # None /\ opt[1] # <<>>

\* ------------------------------------------------------------ chord codec

\* int(s, 16): whitespace dropped, an optional sign, an optional 0x prefix
\* (which an underscore may follow), then one or more hex digits, which
\* single underscores may separate.
HasHexPrefix(u) == Len(u) >= 2 /\ u[1] = "0" /\ u[2] \in {"x", "X"}

HexRaw(s) ==
  LET u == Unsigned(Strip(s))
  IN  IF HasHexPrefix(u)
        THEN (IF Len(u) >= 3 /\ u[3] = "_" THEN SubSeq(u, 4, Len(u)) ELSE SubSeq(u, 3, Len(u)))
        ELSE u

\* The hex digits of the number.
HexBody(s) == NoUnderscores(HexRaw(s))

IsHex(s) == Grouped(HexRaw(s), Digits \o HexUpper \o HexLower)

IsNegative(s) == LET t == Strip(s) IN t # <<>> /\ Head(t) = "-"

\* The magnitude's bits, least significant first (Python integers have no
\* width: the value is kept as bits, not as a machine integer).
RECURSIVE HexBits(_)
HexBits(v) ==
  IF v = <<>> THEN <<>>
  ELSE LET d == HexDigitVal(v[Len(v)])
       IN  <<d % 2, (d \div 2) % 2, (d \div 4) % 2, (d \div 8) % 2>>
             \o HexBits(SubSeq(v, 1, Len(v) - 1))

BitAt(bits, j) == IF j <= Len(bits) THEN bits[j] ELSE 0

FieldBits == 10
FieldMask == 1023
FieldCount == 12

RECURSIVE BitsVal(_, _, _)
BitsVal(bits, from, n) ==
  IF n = 0 THEN 0 ELSE BitAt(bits, from) + 2 * BitsVal(bits, from + 1, n - 1)

\* (value >> (i * 10)) & 0x3FF, for slot i = 0..11.  A negative value shifts
\* arithmetically: floor(-m / 2^k) = -ceil(m / 2^k).
FieldOf(bits, neg, i) ==
  LET f == BitsVal(bits, i * FieldBits + 1, FieldBits)
      carry == IF \E j \in 1..(i * FieldBits) : BitAt(bits, j) = 1 THEN 1 ELSE 0
  IN  IF neg
        THEN ((FieldMask + 1) - ((f + carry) % (FieldMask + 1))) % (FieldMask + 1)
        ELSE f

RECURSIVE Reverse(_)
Reverse(s) == IF s = <<>> THEN <<>> ELSE Append(Reverse(Tail(s)), Head(s))

RECURSIVE NonZeroFields(_, _, _)
NonZeroFields(bits, neg, i) ==
  IF i >= FieldCount THEN <<>>
  ELSE LET action == FieldOf(bits, neg, i)
       IN  (IF action # 0 THEN <<action>> ELSE <<>>) \o NonZeroFields(bits, neg, i + 1)

\* _parse_chord_actions
M_ParseChordActions(hex_str) ==
  IF ~IsHex(hex_str) THEN <<>>
  ELSE NonZeroFields(HexBits(HexBody(hex_str)), IsNegative(hex_str), 0)

ParseChordActions(hex_str) ==
  IF ~IsHex(hex_str) THEN <<>>
  ELSE Reverse(NonZeroFields(HexBits(HexBody(hex_str)), IsNegative(hex_str), 0))

\* int(s, 16) of at most four characters.
RECURSIVE HexMag(_)
HexMag(v) ==
  IF v = <<>> THEN 0 ELSE 16 * HexMag(SubSeq(v, 1, Len(v) - 1)) + HexDigitVal(v[Len(v)])

HexVal(s) == IF IsNegative(s) THEN 0 - HexMag(HexBody(s)) ELSE HexMag(HexBody(s))

RECURSIVE M_ParsePhrase(_)
M_ParsePhrase(s) ==
  IF s = <<>> THEN <<>>
  ELSE LET ok(l) == Len(s) >= l /\ IsHex(SubSeq(s, 1, l))
           take(l) == <<HexVal(SubSeq(s, 1, l))>> \o M_ParsePhrase(SubSeq(s, l + 1, Len(s)))
       IN  IF ok(2) THEN take(2)
           ELSE IF ok(3) THEN take(3)
           ELSE IF ok(4) THEN take(4)
           ELSE M_ParsePhrase(Tail(s))

\* _parse_phrase: at each position the first of the widths 4, 3, 2 that fits
\* and parses; otherwise one character is skipped.
RECURSIVE ParsePhrase(_)
ParsePhrase(s) ==
  IF s = <<>> THEN <<>>
  ELSE LET ok(l) == Len(s) >= l /\ IsHex(SubSeq(s, 1, l))
           take(l) == <<HexVal(SubSeq(s, 1, l))>> \o ParsePhrase(SubSeq(s, l + 1, Len(s)))
       IN  IF ok(4) THEN take(4)
           ELSE IF ok(3) THEN take(3)
           ELSE IF ok(2) THEN take(2)
           ELSE ParsePhrase(Tail(s))

\* ------------------------------------------------------------ query facade

\* get_chord_count, from send_command's tokens.
ChordCountOf(response) ==
  IF response # <<>> /\ Len(response) >= 1 /\ IsInt(response[1])
    THEN IntVal(response[1]) ELSE 0

\* get_ram_bytes_available
RamOf(response) ==
  IF response # <<>> /\ Len(response) >= 1 /\ response[1] # W_UKN /\ IsInt(response[1])
    THEN Some(IntVal(response[1])) ELSE None

\* get_setting
M_SettingOf(response) ==
  IF response # <<>> /\ Len(response) >= 2 /\ IsInt(response[1])
    THEN Some(IntVal(response[1])) ELSE None

SettingOf(response) ==
  IF response # <<>> /\ Len(response) >= 2 /\ response[2] = <<"0">> /\ IsInt(response[1])
    THEN Some(IntVal(response[1])) ELSE None

M_FullId(profile, setting_id) == setting_id + profile

FullId(profile, setting_id) == setting_id + profile * 256

\* get_chord
M_ChordOf(index, response) ==
  IF response # <<>> /\ Len(response) >= 2
    THEN LET actions_hex == response[1]
             phrase_hex == response[2]
         IN  [index |-> index,
              actions_hex |-> actions_hex,
              actions |-> ParseChordActions(actions_hex),
              phrase_hex |-> phrase_hex,
              phrase |-> ParsePhrase(phrase_hex)]
    ELSE [index |-> index, actions_hex |-> <<>>, actions |-> <<>>,
          phrase_hex |-> <<>>, phrase |-> <<>>]

ChordOf(index, response) ==
  IF response # <<>> /\ Len(response) >= 2
    THEN LET actions_hex == response[1]
             phrase_hex == response[2] \o Concat(SubSeq(response, 3, Len(response)))
         IN  [index |-> index,
              actions_hex |-> actions_hex,
              actions |-> ParseChordActions(actions_hex),
              phrase_hex |-> phrase_hex,
              phrase |-> ParsePhrase(phrase_hex)]
    ELSE [index |-> index, actions_hex |-> <<>>, actions |-> <<>>,
          phrase_hex |-> <<>>, phrase |-> <<>>]

\* query_key, from _read_line's line.
QueryKeyOf(line) ==
  IF line = None \/ line[1] = <<>> THEN None
  ELSE LET parts == Split(line[1], SP)
       IN  IF Len(parts) >= 3 /\ parts[1] = W_QRY /\ parts[2] = W_KEY /\ IsInt(parts[3])
             THEN Some(IntVal(parts[3])) ELSE None

\* The timeout query_key hands to _read_line: `timeout if timeout else 10.0`.
QueryKeyReadTimeout(timeout) ==
  IF timeout # None /\ timeout[1] # 0 THEN timeout[1] ELSE 10

DefaultTimeout == 2

\* ------------------------------------------------------------------ state

VARIABLES
  is_open,         \* serial.is_open
  releases,        \* how often the port itself was closed
  serial_timeout,  \* serial.timeout
  rx,              \* bytes received and not yet read (serial.in_waiting)
  wire,            \* bytes the device has sent that have not arrived yet
  reply,           \* what the device sent in answer to the request last written
  lf_arrived,      \* whether a line feed has reached the port during this read
  quiet,           \* the last _read_line timed out with no line feed arrived
  after_quiet,     \* `quiet` as it was when this operation's request was written
  closes,          \* calls of close() and __exit__ so far
  version, company, device, chipset, key_count, layer_count, profile_count,
  op,              \* the operation in progress or just finished, or "none"
  arg,             \* its argument
  pc,              \* "idle", "read" (inside _read_line's loop) or "done"
  cmd,             \* the command parts of the request last written
  rl_timeout,      \* _read_line's timeout argument
  buffer,          \* _read_line's local buffer
  version_response,\* init's local: what send_command(['VERSION']) returned
  response,        \* what the last _read_line returned
  sc_ret,          \* what the last send_command returned
  ret,             \* what the operation returned
  raised,          \* whether the operation raised
  tx,              \* the request lines the operation wrote
  c_pc,            \* the codec round trip: "start", "encoded", "decoded"
  c_actions,       \* the action list to encode
  c_hex,           \* its hex text
  c_decoded,       \* what _parse_chord_actions made of the text
  fn_pc,           \* a function applied on its own: "start", "done"
  fn_args,         \* its arguments
  fn_ret           \* what it returned

port == <<is_open, releases, serial_timeout, closes>>
link == <<rx, wire, reply, lf_arrived, quiet, after_quiet>>
caps == <<version, company, device, chipset, key_count, layer_count, profile_count>>
call == <<op, arg, pc, cmd, rl_timeout, buffer, version_response, response, sc_ret,
          ret, raised, tx>>
codec == <<c_pc, c_actions, c_hex, c_decoded>>
fn == <<fn_pc, fn_args, fn_ret>>
pure == <<codec, fn>>
vars == <<port, link, caps, call, pure>>

\* ------------------------------------------------------- the environment

Line(parts) == Join(parts, SP) \o CRLF

V_NEW == <<"3">>
V_OLD == <<"1">>
V_MID == <<"2", ".", "2", ".", "0", "-", "b", "e", "t", "a", ".", "1", "0">>

CO == <<"C", "C">>
DEV_X == <<"X">>
DEV_Q == <<"Q">>
W_S2 == <<"S", "2">>

\* What the device may send after a request: the echoed reply with a good,
\* a malformed or a missing payload, a reply to something else, UKN, an empty
\* line, or bytes with no line feed.
RepliesTo(command_parts) ==
  LET any == {Line(<<W_UKN>>), CRLF, <<"Z">>}
      own ==
        CASE command_parts = <<W_VERSION>> ->
               {Line(<<W_VERSION, V_NEW>>), Line(<<W_VERSION, V_OLD>>), Line(<<W_VERSION, V_MID>>),
                Line(<<W_VERSION>>)}
          [] command_parts = <<W_ID>> ->
               {Line(<<W_ID, CO, DEV_X, W_M0>>), Line(<<W_ID, CO, DEV_Q, W_S2>>),
                Line(<<W_ID, CO, DEV_X>>)}
          [] command_parts = <<W_CML, W_C0>> ->
               {Line(<<W_CML, W_C0, <<"5">>>>), Line(<<W_CML, W_C0, <<"z">>>>),
                Line(<<W_CML, W_C0>>), Line(<<W_CML, W_C1, <<"5">>>>), Line(<<W_CML>>)}
          [] command_parts = <<W_RAM>> ->
               {Line(<<W_RAM, <<"9">>>>), Line(<<W_RAM, <<"z">>>>),
                Line(<<W_RAM, W_UKN>>), Line(<<W_RAM>>)}
          [] Len(command_parts) = 3 /\ command_parts[1] = W_VAR ->
               {Line(<<W_VAR, W_B1, <<"5">>, <<"0">>>>), Line(<<W_VAR, W_B1, <<"5">>, <<"1">>>>),
                Line(<<W_VAR, W_B1, <<"5">>>>), Line(<<W_VAR, W_B1, <<"z">>, <<"0">>>>)}
          [] Len(command_parts) = 3 /\ command_parts[1] = W_CML /\ command_parts[2] = W_C1 ->
               {Line(<<W_CML, W_C1, <<"8", "0", "1">>, <<"4", "1">>>>),
                Line(<<W_CML, W_C1, <<"z">>, <<"y">>>>),
                Line(<<W_CML, W_C1, <<"8", "0", "1">>>>),
                Line(<<W_CML, W_C1, <<"1">>, <<"4", "1">>, <<"4">>>>)}
          [] command_parts = <<W_QRY, W_KEY>> ->
               {Line(<<W_QRY, W_KEY, <<"7">>>>), Line(<<W_QRY, W_KEY, <<"z">>>>),
                Line(<<W_QRY, W_KEY>>), Line(<<W_QRY, <<"7">>>>)}
          [] OTHER -> {}
  IN  any \cup own

\* The caller's arguments.
SendCommands == {<<W_VERSION>>, <<W_CML, W_C0>>}
Settings == {<<0, 16>>, <<1, 26>>}
ChordIndexes == {0, 1}
KeyTimeouts == {None, Some(0), Some(1)}

\* ------------------------------------------------------------------- init

\* The session as __init__ leaves it (lines 8-26).
SessionInit ==
  /\ is_open = TRUE
  /\ releases = 0
  /\ serial_timeout = Some(DefaultTimeout)
  /\ rx = <<>>
  /\ wire = <<>>
  /\ reply = None
  /\ lf_arrived = FALSE
  /\ quiet = FALSE
  /\ after_quiet = FALSE
  /\ closes = 0
  /\ version = None
  /\ company = None
  /\ device = None
  /\ chipset = None
  /\ key_count = None
  /\ layer_count = 3
  /\ profile_count = 1
  /\ op = "none"
  /\ arg = None
  /\ pc = "idle"
  /\ cmd = <<>>
  /\ rl_timeout = DefaultTimeout
  /\ buffer = <<>>
  /\ version_response = <<>>
  /\ response = None
  /\ sc_ret = <<>>
  /\ ret = None
  /\ raised = FALSE
  /\ tx = <<>>

CodecIdle ==
  /\ c_pc = "start"
  /\ c_actions = <<>>
  /\ c_hex = <<>>
  /\ c_decoded = <<>>

FnIdle ==
  /\ fn_pc = "start"
  /\ fn_args = <<>>
  /\ fn_ret = <<>>

Init == SessionInit /\ CodecIdle /\ FnIdle

\* ------------------------------------------------------------- operations

M_StartRequest(o, a, parts, t) ==
  /\ op' = o
  /\ arg' = a
  /\ cmd' = parts
  /\ tx' = <<Line(parts), Line(parts)>>
  /\ pc' = "read"
  /\ rl_timeout' = t
  /\ buffer' = <<>>
  /\ reply' = None
  /\ lf_arrived' = (\E i \in 1..Len(rx) : rx[i] = LF)
  /\ after_quiet' = quiet
  /\ UNCHANGED <<version_response, response, sc_ret, ret, raised, rx, wire, quiet>>

\* _send_raw on an open port, then the entry into _read_line: the request
\* line is written and the read loop starts with an empty buffer.
StartRequest(o, a, parts, t) ==
  /\ op' = o
  /\ arg' = a
  /\ cmd' = parts
  /\ tx' = <<Line(parts)>>
  /\ pc' = "read"
  /\ rl_timeout' = t
  /\ buffer' = <<>>
  /\ reply' = None
  /\ lf_arrived' = (\E i \in 1..Len(rx) : rx[i] = LF)
  /\ after_quiet' = quiet
  /\ UNCHANGED <<version_response, response, sc_ret, ret, raised, rx, wire, quiet>>

\* serial.write on a closed port raises (PortNotOpenError): nothing is
\* written, and the operation ends with `r` returned or the exception raised.
WriteFails(o, a, parts, r, exc) ==
  /\ op' = o
  /\ arg' = a
  /\ cmd' = parts
  /\ pc' = "done"
  /\ ret' = r
  /\ raised' = exc
  /\ UNCHANGED <<tx, rl_timeout, buffer, version_response, response, sc_ret, link>>

M_Request(o, a, parts) ==
  /\ pc = "idle"
  /\ IF is_open
       THEN StartRequest(o, a, parts, DefaultTimeout)
       ELSE WriteFails(o, a, parts, None, TRUE)
  /\ key_count' = None
  /\ UNCHANGED <<port, version, company, device, chipset, layer_count, profile_count, pure>>

\* An operation built on send_command: one request, one reply line.
Request(o, a, parts) ==
  /\ pc = "idle"
  /\ IF is_open
       THEN StartRequest(o, a, parts, DefaultTimeout)
       ELSE WriteFails(o, a, parts, None, TRUE)
  /\ UNCHANGED <<port, caps, pure>>

SendCommand(parts) == Request("send_command", parts, parts)

GetChordCount == Request("get_chord_count", None, <<W_CML, W_C0>>)

GetRamBytesAvailable == Request("get_ram_bytes_available", None, <<W_RAM>>)

GetSetting(profile, setting_id) ==
  Request("get_setting", <<profile, setting_id>>,
          <<W_VAR, W_B1, ToHexUpper(FullId(profile, setting_id))>>)

GetChord(index) == Request("get_chord", index, <<W_CML, W_C1, ToDec(index)>>)

M_RestoredTimeout == serial_timeout

\* query_key's finally clause: serial.timeout = 2.0
RestoredTimeout == Some(DefaultTimeout)

\* query_key up to its read: serial.timeout is set, QRY KEY is written.  On a
\* closed port the write raises and the finally clause runs.
QueryKey(timeout) ==
  /\ pc = "idle"
  /\ IF is_open
       THEN /\ StartRequest("query_key", timeout, <<W_QRY, W_KEY>>,
                            QueryKeyReadTimeout(timeout))
            /\ serial_timeout' = timeout
       ELSE /\ WriteFails("query_key", timeout, <<W_QRY, W_KEY>>, None, TRUE)
            /\ serial_timeout' = RestoredTimeout
  /\ UNCHANGED <<is_open, releases, closes, caps, pure>>

\* init up to its first read.  On a closed port the write raises, the
\* except clause logs it and init returns False.
InitCall ==
  /\ pc = "idle"
  /\ IF is_open
       THEN StartRequest("init", None, <<W_VERSION>>, DefaultTimeout)
       ELSE WriteFails("init", None, <<W_VERSION>>, FALSE, FALSE)
  /\ UNCHANGED <<port, caps, pure>>

M_ShouldRelease == TRUE

\* close()'s condition: `self.serial and self.serial.is_open`
ShouldRelease == is_open

\* close(): the port is closed if it is open.  Its buffers go with it.
CloseBody ==
  /\ pc = "idle"
  /\ closes < MaxCloses
  /\ closes' = closes + 1
  /\ IF ShouldRelease
       THEN /\ is_open' = FALSE
            /\ releases' = releases + 1
            /\ rx' = <<>>
            /\ wire' = <<>>
            /\ quiet' = FALSE
       ELSE UNCHANGED <<is_open, releases, rx, wire, quiet>>
  /\ pc' = "done"
  /\ UNCHANGED <<serial_timeout, reply, lf_arrived, after_quiet, caps, arg, cmd,
                 rl_timeout, buffer, version_response, response, sc_ret, ret, raised, tx,
                 pure>>

Close == CloseBody /\ op' = "close"

\* __exit__ of the context manager: self.close()
ExitContext == CloseBody /\ op' = "exit"

\* init after the ID reply (lines 91-110).
InitIdentity(id_response) ==
  IF id_response # <<>> /\ Len(id_response) >= 3
    THEN /\ company' = Some(id_response[1])
         /\ device' = Some(id_response[2])
         /\ chipset' = Some(id_response[3])
         /\ key_count' = Some(KeyCountOf(id_response[2]))
         /\ profile_count' =
              IF Truthy(version) /\ VersionGte(version, T_BETA4)
                THEN (IF id_response[3] = W_M0 THEN 2 ELSE 3)
                ELSE profile_count
         /\ layer_count' =
              IF Truthy(version) /\ VersionGte(version, T_BETA20)
                THEN (IF id_response[3] = W_M0 THEN 3 ELSE 4)
                ELSE layer_count
    ELSE UNCHANGED <<company, device, chipset, key_count, profile_count, layer_count>>

\* What init returns when no exception was raised (line 110).
InitResult(v_response, id_response) == TRUE

\* The operation's return value once its reply is in: `line` is what
\* _read_line returned, `toks` what send_command made of it.
ResultOf(line, toks) ==
  CASE op = "send_command" -> toks
    [] op = "get_chord_count" -> ChordCountOf(toks)
    [] op = "get_ram_bytes_available" -> RamOf(toks)
    [] op = "get_setting" -> SettingOf(toks)
    [] op = "get_chord" -> ChordOf(arg, toks)
    [] op = "query_key" -> QueryKeyOf(line)
    [] op = "init" -> InitResult(version_response, toks)
    [] OTHER -> None

\* What follows the return of _read_line with `line` (None on a timeout), up
\* to the operation's return or its next read.
Continue(line) ==
  LET toks == SendCommandResult(cmd, line)
  IN  /\ response' = line
      /\ sc_ret' = IF op = "query_key" THEN sc_ret ELSE toks
      /\ buffer' = <<>>
      /\ quiet' = (line = None /\ ~lf_arrived)
      /\ UNCHANGED <<op, arg, raised, is_open, releases, closes, rl_timeout>>
      /\ IF op = "init" /\ cmd = <<W_VERSION>>
           THEN \* the version is kept, then ID is sent and read for
                /\ version' = IF toks # <<>> THEN Some(Join(toks, SP)) ELSE version
                /\ cmd' = <<W_ID>>
                /\ tx' = Append(tx, Line(<<W_ID>>))
                /\ pc' = "read"
                /\ version_response' = toks
                /\ reply' = None
                /\ after_quiet' = quiet'
                /\ lf_arrived' = (\E i \in 1..Len(rx') : rx'[i] = LF)
                /\ UNCHANGED <<ret, serial_timeout, company, device, chipset,
                               key_count, profile_count, layer_count>>
           ELSE /\ pc' = "done"
                /\ ret' = ResultOf(line, toks)
                /\ serial_timeout' =
                     IF op = "query_key" THEN RestoredTimeout ELSE serial_timeout
                /\ IF op = "init"
                     THEN InitIdentity(toks)
                     ELSE UNCHANGED <<company, device, chipset, key_count,
                                      profile_count, layer_count>>
                /\ lf_arrived' = FALSE
                /\ UNCHANGED <<version, cmd, tx, version_response, reply, after_quiet>>

\* _read_line's loop (lines 40-53) run over the bytes `bytes` that are
\* waiting: each byte is read; a line feed ends the line if the stripped
\* buffer is not empty, a carriage return is dropped, any other byte is
\* kept.  Gives the buffer, the bytes not read, and the line or None.
RECURSIVE M_ReadLoop(_, _)
M_ReadLoop(buf, bytes) ==
  IF bytes = <<>> THEN [buffer |-> buf, left |-> <<>>, line |-> None]
  ELSE LET char == Head(bytes)
       IN  IF char = LF
             THEN [buffer |-> buf, left |-> Tail(bytes),
                   line |-> Some(Strip(DecodeAscii(buf)))]
             ELSE IF char = CR THEN M_ReadLoop(buf, Tail(bytes))
             ELSE M_ReadLoop(Append(buf, char), Tail(bytes))

RECURSIVE ReadLoop(_, _)
ReadLoop(buf, bytes) ==
  IF bytes = <<>> THEN [buffer |-> buf, left |-> <<>>, line |-> None]
  ELSE LET char == Head(bytes)
       IN  IF char = LF
             THEN IF Strip(DecodeAscii(buf)) # <<>>
                    THEN [buffer |-> buf, left |-> Tail(bytes),
                          line |-> Some(Strip(DecodeAscii(buf)))]
                    ELSE ReadLoop(buf, Tail(bytes))
             ELSE IF char = CR THEN ReadLoop(buf, Tail(bytes))
             ELSE ReadLoop(Append(buf, char), Tail(bytes))

\* The loop runs while the timeout has not passed, over the next n bytes
\* waiting, and _read_line returns if that completes a line.
ReadBytes(n) ==
  /\ pc = "read"
  /\ rl_timeout > 0
  /\ n >= 1
  /\ n <= Len(rx)
  /\ LET r == ReadLoop(buffer, SubSeq(rx, 1, n))
     IN  /\ rx' = r.left \o SubSeq(rx, n + 1, Len(rx))
         /\ UNCHANGED <<wire, pure>>
         /\ IF r.line # None
              THEN Continue(r.line)
              ELSE /\ buffer' = r.buffer
                   /\ UNCHANGED <<port, reply, lf_arrived, quiet, after_quiet, caps, op,
                                  arg, pc, cmd,
                                  rl_timeout, version_response, response, sc_ret, ret,
                                  raised, tx>>

\* The loop's condition fails: the timeout has passed and _read_line
\* returns None.  Bytes still waiting stay in the port.
ReadTimeout ==
  /\ pc = "read"
  /\ UNCHANGED <<rx, wire, pure>>
  /\ Continue(None)

\* The caller has the operation's outcome; the session is idle again.
Return ==
  /\ pc = "done"
  /\ pc' = "idle"
  /\ op' = "none"
  /\ arg' = None
  /\ cmd' = <<>>
  /\ response' = None
  /\ sc_ret' = <<>>
  /\ ret' = None
  /\ raised' = FALSE
  /\ tx' = <<>>
  /\ rl_timeout' = DefaultTimeout
  /\ version_response' = <<>>
  /\ reply' = None
  /\ after_quiet' = FALSE
  /\ UNCHANGED <<buffer, port, rx, wire, lf_arrived, quiet, caps, pure>>

\* The device answers the request that is being read for.
DeviceReply(line) ==
  /\ pc = "read"
  /\ reply = None
  /\ Len(rx) + Len(wire) <= MaxStale
  /\ wire' = wire \o line
  /\ reply' = Some(line)
  /\ UNCHANGED <<rx, lf_arrived, quiet, after_quiet, port, caps, call, pure>>

\* The next k bytes on the wire arrive at the port while a read is on.
DeviceDeliver(k) ==
  /\ pc = "read"
  /\ k >= 1
  /\ k <= Len(wire)
  /\ rx' = rx \o SubSeq(wire, 1, k)
  /\ wire' = SubSeq(wire, k + 1, Len(wire))
  /\ lf_arrived' = (lf_arrived \/ \E i \in 1..k : wire[i] = LF)
  /\ UNCHANGED <<reply, quiet, after_quiet, port, caps, call, pure>>

\* The session with every operation; the device's bytes arrive a burst at a
\* time and the read loop takes what is waiting.
Next ==
  \/ \E parts \in SendCommands : SendCommand(parts)
  \/ InitCall
  \/ GetChordCount
  \/ GetRamBytesAvailable
  \/ \E s \in Settings : GetSetting(s[1], s[2])
  \/ \E i \in ChordIndexes : GetChord(i)
  \/ \E t \in KeyTimeouts : QueryKey(t)
  \/ Close
  \/ ExitContext
  \/ ReadBytes(Len(rx))
  \/ ReadTimeout
  \/ Return
  \/ \E line \in RepliesTo(cmd) : DeviceReply(line)
  \/ DeviceDeliver(Len(wire))

Spec == Init /\ [][Next]_vars

\* -------------------------------------------------- the codec round trip

\* The ten bits of an action code, least significant first.
RECURSIVE BitsOf(_, _)
BitsOf(v, n) == IF n = 0 THEN <<>> ELSE <<v % 2>> \o BitsOf(v \div 2, n - 1)

\* The symmetric encoder: the k-th of n actions (from 0) goes to the 10-bit
\* field n-1-k counted from the least significant bits.
RECURSIVE PackedBits(_)
PackedBits(actions) ==
  IF actions = <<>> THEN <<>>
  ELSE BitsOf(actions[Len(actions)], FieldBits)
         \o PackedBits(SubSeq(actions, 1, Len(actions) - 1))

\* The hex digits of a bit string, most significant first, as format(value,
\* "X") writes them: no leading zeros, "0" for zero.
RECURSIVE HexDigitsOf(_)
HexDigitsOf(bits) ==
  IF bits = <<>> THEN <<>>
  ELSE Append(HexDigitsOf(SubSeq(bits, 5, Len(bits))),
              HexChars[BitsVal(bits, 1, 4) + 1])

RECURSIVE DropLeadingZeros(_)
DropLeadingZeros(s) ==
  IF Len(s) > 1 /\ Head(s) = "0" THEN DropLeadingZeros(Tail(s)) ELSE s

EncodeActions(actions) ==
  LET digits == DropLeadingZeros(HexDigitsOf(PackedBits(actions)))
  IN  IF digits = <<>> THEN <<"0">> ELSE digits

ActionVals == {1, 512, 1023}

Ramp(n) == [i \in 1..n |-> i]
HighRamp(n) == [i \in 1..n |-> 1024 - i]

ActionLists ==
  UNION {[1..n -> ActionVals] : n \in 0..MaxListLen}
    \cup {Ramp(n) : n \in 0..FieldCount}
    \cup {HighRamp(n) : n \in 0..FieldCount}

CodecInit ==
  /\ SessionInit
  /\ FnIdle
  /\ c_pc = "start"
  /\ c_actions \in ActionLists
  /\ c_hex = <<>>
  /\ c_decoded = <<>>

Encode ==
  /\ c_pc = "start"
  /\ UNCHANGED <<port, link, caps, call, fn>>
  /\ c_hex' = EncodeActions(c_actions)
  /\ c_pc' = "encoded"
  /\ UNCHANGED <<c_actions, c_decoded>>

Decode ==
  /\ c_pc = "encoded"
  /\ UNCHANGED <<port, link, caps, call, fn>>
  /\ c_decoded' = ParseChordActions(c_hex)
  /\ c_pc' = "decoded"
  /\ UNCHANGED <<c_actions, c_hex>>

CodecNext == Encode \/ Decode

SpecCodec == CodecInit /\ [][CodecNext]_vars

\* ------------------------------------------- functions applied on their own

\* A function is applied to arguments drawn by the initial state, with the
\* session and the codec round trip left as constructed.
Apply(result) ==
  /\ fn_pc = "start"
  /\ fn_pc' = "done"
  /\ fn_ret' = result
  /\ UNCHANGED <<fn_args, port, link, caps, call, codec>>

FnInit(args) ==
  /\ SessionInit
  /\ CodecIdle
  /\ fn_pc = "start"
  /\ fn_args \in args
  /\ fn_ret = <<>>

\* Version text: one to four dot-separated components, with or without a
\* pre-release suffix.
VersionComponents == {<<"0">>, <<"2">>, <<"9">>, <<"1", "0">>, <<"x">>, <<>>}

MaxComponents == 3

ComponentLists ==
  UNION {[1..n -> VersionComponents] : n \in 1..MaxComponents}
    \cup {<<<<"2">>, <<"2">>, <<"0">>, c>> : c \in VersionComponents}

SUFFIX_BETA == <<"-", "b", "e", "t", "a", ".", "4">>

DeviceVersions ==
  {Join(l, ".") : l \in ComponentLists}
    \cup {Join(l, ".") \o SUFFIX_BETA : l \in ComponentLists}
    \cup {T_BETA20}

T_220 == <<"2", ".", "2", ".", "0">>

TargetVersions ==
  {T_BETA4, T_BETA20, T_220, <<"2">>, <<"2", ".", "1", "0">>, <<"9", ".", "9", ".", "9">>,
   <<"2", ".", "x">>}

VersionInit == FnInit(DeviceVersions \X TargetVersions)

\* self._version_gte(target_version) with self.version = fn_args[1]
ApplyVersionGte == Apply(VersionGte(Some(fn_args[1]), fn_args[2]))

SpecVersion == VersionInit /\ [][ApplyVersionGte]_vars

\* Bytes a device may send in reply: text, blanks, line ends, a high byte.
WireBytes == {"A", SP, CR, LF, HIGH}

MaxBytes == 4

ByteSeqs == UNION {[1..n -> WireBytes] : n \in 0..MaxBytes}

ReadLineInit == FnInit(ByteSeqs)

\* _read_line with the bytes fn_args waiting and time to read them all.
ApplyReadLine == Apply(ReadLoop(<<>>, fn_args))

SpecReadLine == ReadLineInit /\ [][ApplyReadLine]_vars

\* Two _read_line calls in a row: the device's bytes and how many of them
\* have arrived when the first call's timeout passes.
SplitInputs == {<<bytes, k>> : bytes \in ByteSeqs, k \in 0..MaxBytes}

TwoReadsInit == FnInit({a \in SplitInputs : a[2] <= Len(a[1])})

\* The first call reads the k bytes that are there: it returns at a line, or
\* times out and its local buffer (line 38) goes with it.  The second call
\* starts with an empty buffer and reads what the first left and the rest.
TwoReadLines(bytes, k) ==
  LET first == ReadLoop(<<>>, SubSeq(bytes, 1, k))
      second == ReadLoop(<<>>, first.left \o SubSeq(bytes, k + 1, Len(bytes)))
  IN  <<first.line, second.line>>

ApplyTwoReads == Apply(TwoReadLines(fn_args[1], fn_args[2]))

SpecTwoReads == TwoReadsInit /\ [][ApplyTwoReads]_vars

\* Phrase texts: every string up to MaxPhraseLen over hex digits, a letter
\* that is none, a sign and an underscore, and runs of hex digits of every
\* length up to MaxRun.
PhraseChars == {"1", "F", "z", "-", "_"}

MaxPhraseLen == 4

MaxRun == 9

HexRun(n) == [i \in 1..n |-> HexChars[((i * 7) % 16) + 1]]

PhraseTexts ==
  UNION {[1..n -> PhraseChars] : n \in 0..MaxPhraseLen}
    \cup {HexRun(n) : n \in 0..MaxRun}

PhraseInit == FnInit(PhraseTexts)

ApplyParsePhrase == Apply(ParsePhrase(fn_args))

SpecPhrase == PhraseInit /\ [][ApplyParsePhrase]_vars

\* Action texts: every string up to MaxActionLen over hex digits, a letter
\* that is none, a sign, the x of a prefix and an underscore, and runs of F
\* around the 30 digits that twelve fields take.
ActionChars == {"0", "1", "F", "z", "-", "x", "_"}

MaxActionLen == 4

LongRuns == {[i \in 1..n |-> "F"] : n \in 29..32}

ActionTexts == UNION {[1..n -> ActionChars] : n \in 0..MaxActionLen} \cup LongRuns

ActionsInit == FnInit(ActionTexts)

ApplyParseChordActions == Apply(ParseChordActions(fn_args))

SpecActions == ActionsInit /\ [][ApplyParseChordActions]_vars

\* ----------------------------------------------------------------- claims

\* The protocol's own terms, stated apart from the code: a reply line echoes
\* a command when its leading token (two tokens for a command of two or more
\* parts) equal the command's, and its payload is what follows them.
PrefixLen(command_parts) == IF Len(command_parts) = 1 THEN 1 ELSE 2

EchoMatches(command_parts, text) ==
  LET t == Split(text, SP)
      k == PrefixLen(command_parts)
  IN  Len(t) >= k /\ \A i \in 1..k : t[i] = command_parts[i]

PayloadAfterEcho(command_parts, text) ==
  LET t == Split(text, SP)
  IN  SubSeq(t, PrefixLen(command_parts) + 1, Len(t))

\* The payload of the line that was read, [] when there is none to take.
PayloadRead(command_parts, line) ==
  IF line # None /\ EchoMatches(command_parts, line[1])
    THEN PayloadAfterEcho(command_parts, line[1]) ELSE <<>>

\* A token int() cannot read: it holds something other than digits, a sign
\* and blanks, or no digit at all.
NonNumeric(tok) ==
  \/ \E i \in 1..Len(tok) : ~IsDigit(tok[i]) /\ tok[i] \notin {"-", "+", SP}
  \/ \A i \in 1..Len(tok) : ~IsDigit(tok[i])

\* A token int(_, 16) cannot read.
NonHex(tok) ==
  \/ \E i \in 1..Len(tok) : ~IsHexDigit(tok[i]) /\ tok[i] \notin {"-", "+", SP, "x", "X"}
  \/ \A i \in 1..Len(tok) : ~IsHexDigit(tok[i])

\* An operation that wrote its request (the port was open) has returned.
Returned(o) == pc = "done" /\ op = o /\ tx # <<>>

SendCommandOps ==
  {"send_command", "init", "get_chord_count", "get_ram_bytes_available", "get_setting",
   "get_chord"}

TXT_VERSION_BETA20 == W_VERSION \o <<SP>> \o T_BETA20

\* C1: send_command returns the tokens after the matched prefix (one token
\* for a one-part command, two for a longer one) when the reply's leading
\* tokens equal the command's, and [] otherwise: no line, UKN, a mismatch.
C1_SendCommandContract ==
  /\ (pc = "done" /\ op \in SendCommandOps /\ tx # <<>>) =>
       /\ sc_ret = PayloadRead(cmd, response)
       /\ (response # None /\ StartsWith(response[1], W_UKN)) => sc_ret = <<>>
       /\ response = None => sc_ret = <<>>
  /\ Returned("send_command") => ret = sc_ret
  /\ SendCommandResult(<<W_VERSION>>, Some(TXT_VERSION_BETA20)) = <<T_BETA20>>
  /\ SendCommandResult(<<W_VERSION>>, Some(W_UKN)) = <<>>

C1_Witness ==
  /\ Returned("send_command")
  /\ cmd = <<W_CML, W_C0>>
  /\ response = Some(Join(<<W_CML, W_C0, <<"5">>>>, SP))
  /\ ret = <<<<"5">>>>

CapsUnset ==
  /\ version = None
  /\ company = None
  /\ device = None
  /\ chipset = None
  /\ key_count = None
  /\ layer_count = 3
  /\ profile_count = 1

CapsAllSet ==
  /\ version # None
  /\ company # None
  /\ device # None
  /\ chipset # None
  /\ key_count # None

\* C2: in init(), if the VERSION command yields no data, or the ID command
\* yields no data or fewer than three tokens, the capability fields are left
\* unset and init() returns false.
C2_InitFailureHalts ==
  (Returned("init") /\ (version_response = <<>> \/ Len(sc_ret) < 3)) =>
    (ret = FALSE /\ CapsUnset)

\* C3: between operations the fields version, company, device, chipset,
\* key_count, layer_count and profile_count are all in their pre-handshake
\* state or all set; a half-completed handshake leaves no mix.
C3_CapsAllOrNothing == pc # "read" => (CapsUnset \/ CapsAllSet)

EmptyChord(index) ==
  [index |-> index, actions_hex |-> <<>>, actions |-> <<>>, phrase_hex |-> <<>>,
   phrase |-> <<>>]

QueryKeyMalformed(line) ==
  \/ line = None
  \/ LET t == Split(line[1], SP)
     IN  \/ Len(t) < 3
         \/ t[1] # W_QRY
         \/ t[2] # W_KEY
         \/ NonNumeric(t[3])

C5_TimeoutRestored ==
  (pc = "done" /\ op = "query_key") => serial_timeout = Some(DefaultTimeout)

C5_Witness ==
  /\ Returned("query_key")
  /\ arg = None
  /\ ret = Some(7)
  /\ serial_timeout = Some(DefaultTimeout)

\* C6: query_key called with no timeout returns only once a line has
\* arrived.
C6_IndefiniteWait ==
  (Returned("query_key") /\ arg = None) => response # None

\* C7: after close(), send_command, init, chord_count, ram_available,
\* setting, chord and query_key report failure through their return value
\* and do not raise.
C7_CleanFailureAfterClose ==
  (pc = "done" /\ ~is_open /\ op \in SendCommandOps \cup {"query_key"}) => ~raised

\* C8: over any sequence of close() calls and context-manager exits the
\* port is released exactly once: by the first, and every later one changes
\* nothing and does not raise.
C8_ReleasedOnce ==
  /\ releases = (IF closes = 0 THEN 0 ELSE 1)
  /\ is_open <=> closes = 0
  /\ (pc = "done" /\ op \in {"close", "exit"}) => ~raised

C8_Witness ==
  /\ pc = "done"
  /\ op = "exit"
  /\ closes = 2
  /\ releases = 1

\* What the device sent, without its line terminator.
ReplyText(line) ==
  IF Len(line) >= 2 /\ SubSeq(line, Len(line) - 1, Len(line)) = CRLF
    THEN SubSeq(line, 1, Len(line) - 2) ELSE line

\* C9: after a _read_line that timed out with no line feed arrived, a
\* command to which the device sends the correct reply, and whose read gets
\* a line before its own timeout, returns that reply's payload.
C9_UsableAfterTimeout ==
  (pc = "done" /\ op \in SendCommandOps /\ tx # <<>> /\ after_quiet /\ reply # None
     /\ EchoMatches(cmd, ReplyText(reply[1])) /\ response # None) =>
    sc_ret = PayloadAfterEcho(cmd, ReplyText(reply[1]))

\* C10: for every action list of at most 12 values in 1..1023, encoding it
\* with the symmetric encoder and decoding the hex text with
\* _parse_chord_actions gives the list back, in order.
C10_EncodeDecodeRoundTrip ==
  /\ c_pc = "decoded" => c_decoded = c_actions
  /\ Len(c_actions) <= FieldCount
  /\ \A i \in 1..Len(c_actions) : c_actions[i] \in 1..FieldMask

C10_Witness ==
  /\ c_pc = "decoded"
  /\ c_actions = Ramp(FieldCount)
  /\ c_decoded = <<1, 2, 3, 4, 5, 6, 7, 8, 9, 10, 11, 12>>

\* The numeric prefix of a version text: what precedes the first "-", cut at
\* the dots.
PrefixComponents(text) == Split(Split(text, "-")[1], ".")

AllDigits(c) == c # <<>> /\ \A i \in 1..Len(c) : IsDigit(c[i])

NumericVersion(text) ==
  \A i \in 1..Len(PrefixComponents(text)) : AllDigits(PrefixComponents(text)[i])

\* The first three components as numbers, a missing one taken as 0.
Triple(text) ==
  LET c == PrefixComponents(text)
  IN  [i \in 1..3 |-> IF i <= Len(c) THEN DecVal(c[i]) ELSE 0]

LexGte(a, b) ==
  \/ a[1] > b[1]
  \/ a[1] = b[1] /\ a[2] > b[2]
  \/ a[1] = b[1] /\ a[2] = b[2] /\ a[3] >= b[3]

T_219 == <<"2", ".", "1", ".", "9">>

\* C11: for a device version and a target made of numeric dot-separated
\* components with an optional pre-release suffix, _version_gte is true
\* exactly when the device's first three components (missing ones 0) are
\* lexicographically at least the target's; 2.2.0-beta.20 meets
\* 2.2.0-beta.4, 2.1.9 does not meet 2.2.0, 2.2.0 meets 2.2.0.
C11_VersionGteLexicographic ==
  /\ (fn_pc = "done" /\ NumericVersion(fn_args[1]) /\ NumericVersion(fn_args[2])) =>
       (fn_ret <=> LexGte(Triple(fn_args[1]), Triple(fn_args[2])))
  /\ VersionGte(Some(T_BETA20), T_BETA4)
  /\ ~VersionGte(Some(T_219), T_220)
  /\ VersionGte(Some(T_220), T_220)

C11_Witness ==
  /\ fn_pc = "done"
  /\ fn_args = <<<<"2", ".", "9">>, <<"2", ".", "1", "0">>>>
  /\ fn_ret = FALSE

\* A version text with a component that holds something other than digits.
MalformedVersion(text) ==
  \E i \in 1..Len(PrefixComponents(text)) :
    \E j \in 1..Len(PrefixComponents(text)[i]) : ~IsDigit(PrefixComponents(text)[i][j])

\* C12: for a device version with a non-numeric component, whichever it is
\* and whatever the others are, _version_gte gives false.
C12_MalformedVersionFalse ==
  (fn_pc = "done" /\ MalformedVersion(fn_args[1])) => fn_ret = FALSE

\* C13: get_setting(profile, id) sends VAR B1 and the upper-case hex of
\* id + profile * 256 (10 for profile 0, id 0x10; 11A for profile 1, id
\* 0x1A), and returns the payload's integer value when its status token is
\* "0" (5 for `5 0`), none when the status is another or absent (`5 1`, `5`).
C13_SettingRequestAndStatus ==
  LET pay == PayloadRead(cmd, response)
  IN  Returned("get_setting") =>
        /\ arg = <<0, 16>> => tx = <<Line(<<W_VAR, W_B1, <<"1", "0">>>>)>>
        /\ arg = <<1, 26>> => tx = <<Line(<<W_VAR, W_B1, <<"1", "1", "A">>>>)>>
        /\ (Len(pay) >= 2 /\ pay[2] = <<"0">> /\ AllDigits(pay[1])) =>
             ret = Some(DecVal(pay[1]))
        /\ (Len(pay) < 2 \/ pay[2] # <<"0">>) => ret = None
        /\ pay = <<<<"5">>, <<"0">>>> => ret = Some(5)
        /\ pay \in {<<<<"5">>, <<"1">>>>, <<<<"5">>>>} => ret = None

C13_Witness ==
  /\ Returned("get_setting")
  /\ arg = <<0, 16>>
  /\ response = Some(Join(<<W_VAR, W_B1, <<"5">>, <<"0">>>>, SP))
  /\ ret = Some(5)

\* The version text of the handshake that has just ended, none when the
\* VERSION step gave no data.
HandshakeVersion == IF version_response = <<>> THEN None ELSE Some(Join(version_response, SP))

Meets(v, threshold) == v # None /\ LexGte(Triple(v[1]), Triple(threshold))

\* C14: whenever an init() returns, the first or a later one on the session,
\* if the version obtained in that handshake is absent or below a threshold
\* then the count that threshold gates has its default: profile_count = 1
\* below 2.2.0-beta.4, layer_count = 3 below 2.2.0-beta.20.
C14_DefaultsBelowThresholds ==
  Returned("init") =>
    /\ ~Meets(HandshakeVersion, T_BETA4) => profile_count = 1
    /\ ~Meets(HandshakeVersion, T_BETA20) => layer_count = 3

\* C15: version, company, device, chipset, key_count, layer_count and
\* profile_count change only in init(): no step of send_command,
\* get_chord_count, get_ram_bytes_available, get_setting, get_chord,
\* query_key or close changes any of them, whatever the device replies.
C15_OnlyInitMutatesCaps == [][op' # "init" => caps' = caps]_vars

C15_Witness ==
  /\ Returned("get_chord")
  /\ response # None
  /\ CapsAllSet
  /\ version = Some(V_NEW)
  /\ profile_count = 3

\* The operations that make one call of send_command or one write of their
\* own.
OneRequestOps == (SendCommandOps \ {"init"}) \cup {"query_key"}

HasLineFeed(text) == \E i \in 1..Len(text) : text[i] = LF

\* C16: each send_command, and each operation built on one, has written
\* exactly its one request line when it returns, init its two (VERSION, then
\* ID), also after a timeout, a UKN reply or a mismatch; and it has taken at
\* most one line from the port.
C16_OneRequestNoRetry ==
  /\ (pc = "done" /\ op \in OneRequestOps /\ tx # <<>>) => tx = <<Line(cmd)>>
  /\ Returned("init") => tx = <<Line(<<W_VERSION>>), Line(<<W_ID>>)>>
  /\ (pc = "read" /\ op \in OneRequestOps) => tx = <<Line(cmd)>>
  /\ (pc = "done" /\ response # None) => ~HasLineFeed(response[1])

C16_Witness ==
  /\ Returned("get_chord_count")
  /\ response = None
  /\ tx = <<Line(<<W_CML, W_C0>>)>>

\* What _read_line has accumulated when it reads the line feed at place i:
\* the bytes before it, carriage returns and line feeds left out.
AccumulatedAt(bytes, i) == SelectSeq(SubSeq(bytes, 1, i - 1), LAMBDA c : c \notin {CR, LF})

\* The same as text: bytes that are not ASCII left out, blanks at both ends
\* removed.
TextAt(bytes, i) == Strip(SelectSeq(AccumulatedAt(bytes, i), LAMBDA c : c # HIGH))

LineFeeds(bytes) == {i \in 1..Len(bytes) : bytes[i] = LF}

FirstOf(S) == CHOOSE i \in S : \A j \in S : i <= j

\* C17 (as amended): _read_line returns at the first line feed at which the
\* text accumulated since the call began (carriage returns dropped, bytes
\* that are not ASCII left out, blanks at both ends removed) is not empty,
\* and returns that text, leaving the bytes after that line feed unread; a
\* line feed with nothing but blanks accumulated is passed over and reading
\* goes on; with no such line feed it returns no line.
C17_ReturnsAtFirstNonBlankLine ==
  LET ends == {i \in LineFeeds(fn_args) : TextAt(fn_args, i) # <<>>}
  IN  fn_pc = "done" =>
        IF ends = {}
          THEN fn_ret.line = None /\ fn_ret.left = <<>>
          ELSE /\ fn_ret.line = Some(TextAt(fn_args, FirstOf(ends)))
               /\ fn_ret.left = SubSeq(fn_args, FirstOf(ends) + 1, Len(fn_args))

C17_Witness ==
  /\ fn_pc = "done"
  /\ fn_args = <<LF, SP, "A", LF>>
  /\ fn_ret.line = Some(<<"A">>)

\* C17 as first stated: _read_line returns at the first line feed it reads,
\* with exactly the bytes accumulated before it, carriage returns dropped.
C17_ReturnsAtFirstLineFeed ==
  (fn_pc = "done" /\ LineFeeds(fn_args) # {}) =>
    fn_ret.line = Some(AccumulatedAt(fn_args, FirstOf(LineFeeds(fn_args))))

\* The widest of 4, 3, 2 characters at the head of s that int(_, 16) reads,
\* 0 when it reads none of them.
WidthAtHead(s) ==
  IF Len(s) >= 4 /\ IsHex(SubSeq(s, 1, 4)) THEN 4
  ELSE IF Len(s) >= 3 /\ IsHex(SubSeq(s, 1, 3)) THEN 3
  ELSE IF Len(s) >= 2 /\ IsHex(SubSeq(s, 1, 2)) THEN 2
  ELSE 0

OnlyHexDigits(s) == \A i \in 1..Len(s) : IsHexDigit(s[i])

\* The value of hex digits, most significant first.
DigitsValue(d) ==
  LET RECURSIVE val(_)
      val(k) == IF k = 0 THEN 0 ELSE 16 * val(k - 1) + HexDigitVal(d[k])
  IN  val(Len(d))

\* C18: _parse_phrase takes, at the head of the text, the first of the
\* widths 4, 3, 2 that parses as hex and goes on behind it, or skips exactly
\* one character when none parses; it ends on every input, with at most one
\* value per two characters; on n hex digits it gives n div 4 four-digit
\* values, then one value for a remainder of 3 or 2 digits and none for 1.
C18_GreedyPhraseDecode ==
  LET s == fn_args
      n == Len(s)
      w == WidthAtHead(s)
      q == n \div 4
      r == n % 4
  IN  fn_pc = "done" =>
        /\ Len(fn_ret) <= n \div 2
        /\ (n > 0 /\ w = 0) => fn_ret = ParsePhrase(Tail(s))
        /\ w > 0 =>
             /\ fn_ret # <<>>
             /\ fn_ret[1] = HexVal(SubSeq(s, 1, w))
             /\ Tail(fn_ret) = ParsePhrase(SubSeq(s, w + 1, n))
        /\ OnlyHexDigits(s) =>
             /\ Len(fn_ret) = q + (IF r \in {2, 3} THEN 1 ELSE 0)
             /\ \A k \in 1..q : fn_ret[k] = DigitsValue(SubSeq(s, 4 * k - 3, 4 * k))
             /\ r \in {2, 3} => fn_ret[q + 1] = DigitsValue(SubSeq(s, 4 * q + 1, n))

C18_Witness ==
  /\ fn_pc = "done"
  /\ fn_args = HexRun(7)
  /\ Len(fn_ret) = 2

\* A text that is hex: one or more hex digits and nothing else.
ValidHex(s) == s # <<>> /\ OnlyHexDigits(s)

\* C19: for every text _parse_chord_actions returns at most 12 action
\* codes, each in 1..1023, and none for "0" and for every text that is not
\* valid hex.
C19_DecodeActionsTotal ==
  fn_pc = "done" =>
    /\ Len(fn_ret) <= FieldCount
    /\ \A i \in 1..Len(fn_ret) : fn_ret[i] \in 1..FieldMask
    /\ (fn_args = <<"0">> \/ ~ValidHex(fn_args)) => fn_ret = <<>>

\* C20: for a reply to CML C1 <index> with a payload of an action token
\* and one or more phrase fragments, get_chord returns the requested index,
\* the first token as raw action hex, the fragments joined in order as raw
\* phrase hex, and the two decoded (801 gives actions 2, 1; 41 and 4 give
\* phrase hex 414, phrase 1044); for any other outcome it returns the empty
\* Chord of that index.
C20_ChordFromPayload ==
  LET pay == PayloadRead(cmd, response)
  IN  Returned("get_chord") =>
        /\ Len(pay) >= 2 =>
             /\ ret.index = arg
             /\ ret.actions_hex = pay[1]
             /\ ret.phrase_hex = Concat(Tail(pay))
             /\ ret.actions = ParseChordActions(pay[1])
             /\ ret.phrase = ParsePhrase(Concat(Tail(pay)))
        /\ Len(pay) < 2 => ret = EmptyChord(arg)
        /\ pay = <<<<"8", "0", "1">>, <<"4", "1">>>> =>
             ret.actions = <<2, 1>> /\ ret.phrase = <<65>>
        /\ pay = <<<<"1">>, <<"4", "1">>, <<"4">>>> =>
             /\ ret.actions = <<1>>
             /\ ret.phrase_hex = <<"4", "1", "4">>
             /\ ret.phrase = <<1044>>

C20_Witness ==
  /\ Returned("get_chord")
  /\ arg = 1
  /\ PayloadRead(cmd, response) = <<<<"1">>, <<"4", "1">>, <<"4">>>>
  /\ ret.phrase = <<1044>>

\* The capability table, as the protocol documents it.
TableKeyCounts ==
  {<<<<"O", "N", "E">>, 90>>, <<<<"T", "W", "O">>, 90>>, <<<<"L", "I", "T", "E">>, 67>>,
   <<<<"X">>, 256>>, <<<<"E", "N", "G", "I", "N", "E">>, 256>>, <<<<"M", "4", "G">>, 90>>,
   <<<<"M", "4", "G", "R">>, 90>>, <<<<"T", "4", "G">>, 7>>, <<<<"Z", "E", "R", "O">>, 256>>}

\* C21: after an init() whose ID reply carries three or more tokens,
\* company, device and chipset are its first three tokens in order, and
\* key_count is the table's entry for the device, 90 for a device the table
\* does not hold (256 for X, 90 for Q).
C21_IdentityFromIdReply ==
  LET pay == PayloadRead(<<W_ID>>, response)
  IN  /\ (Returned("init") /\ Len(pay) >= 3) =>
            /\ company = Some(pay[1])
            /\ device = Some(pay[2])
            /\ chipset = Some(pay[3])
            /\ pay[2] = DEV_X => key_count = Some(256)
            /\ pay[2] = DEV_Q => key_count = Some(90)
      /\ \A e \in TableKeyCounts : KeyCountOf(e[1]) = e[2]
      /\ KeyCountOf(DEV_Q) = 90

C21_Witness ==
  /\ Returned("init")
  /\ response = Some(Join(<<W_ID, CO, DEV_X, W_M0>>, SP))
  /\ company = Some(CO)
  /\ device = Some(DEV_X)
  /\ chipset = Some(W_M0)
  /\ key_count = Some(256)

\* C22: a non-empty payload returned by send_command was taken from the
\* line the device sent in answer to that same request: the device has
\* answered the request, and the line read is that answer.
C22_PayloadFromOwnReply ==
  (pc = "done" /\ op = "send_command" /\ sc_ret # <<>>) =>
    /\ reply # None
    /\ response = Some(ReplyText(reply[1]))

\* The lines the device sent: the bytes between consecutive line feeds,
\* carriage returns removed, read as text (bytes that are not ASCII left
\* out, blanks at both ends removed).
DeviceLines(bytes) ==
  LET segs == Split(bytes, LF)
  IN  {Strip(DecodeAscii(SelectSeq(segs[i], LAMBDA c : c # CR))) : i \in 1..(Len(segs) - 1)}

\* C23: every line _read_line returns is the complete content of one line
\* the device sent, also when an earlier call timed out after it had read the
\* first bytes of a line whose remainder arrives later.
C23_ReturnsCompleteLines ==
  fn_pc = "done" =>
    \A i \in 1..2 : fn_ret[i] # None => fn_ret[i][1] \in DeviceLines(fn_args[1])

\* C24: in every state of a session, whatever init() calls were made and
\* whatever version and chipset the device reported, profile_count and
\* layer_count are 1 and 3, 2 and 3, or 3 and 4: both thresholds compare as
\* 2.2.0, so the two counts are raised together.
C24_CountsRaisedTogether ==
  /\ <<profile_count, layer_count>> \in {<<1, 3>>, <<2, 3>>, <<3, 4>>}
  /\ VersionGte(version, T_BETA4) = VersionGte(version, T_BETA20)

C24_Witness ==
  /\ Returned("init")
  /\ version = Some(V_MID)
  /\ chipset = Some(W_S2)
  /\ profile_count = 3
  /\ layer_count = 4

====
